---------------------------- MODULE Spec2Model ----------------------------
(***************************************************************************)
(* A model of ChartifactDialog (src/unnamed/part_000): the markdown to     *)
(* Chartifact conversion (convertToChartifact) and the lifecycle of the    *)
(* Chartifact sandbox driven by the component's three effects.             *)
(*                                                                         *)
(* Two specifications share the module.  ConvSpec runs convertToChartifact *)
(* on documents and chart stores drawn from bounded sets.  Spec is the     *)
(* component: props, React state, the sandbox ref, the effects and the     *)
(* asynchronous completions.                                               *)
(***************************************************************************)
EXTENDS Integers, Sequences, FiniteSets, TLC

(***************************************************************************)
(* Documents.  A document is a sequence of symbols.  A symbol is a record  *)
(* [k, n]: k is the text of the symbol, n a data name (empty except for    *)
(* the emitted blocks).  The opener "[IMAGE(" and the closer ")]" are one  *)
(* symbol each; every other input symbol is one character, none of them    *)
(* ")" or a character of the opener, so an occurrence of a token in the    *)
(* text is an occurrence in the sequence of symbols.                       *)
(***************************************************************************)
Ch(c) == [k |-> c, n |-> <<>>]

OPEN == Ch("[IMAGE(")

CLOSE == Ch(")]")

\* The text appended before the data blocks: result += '\n\n'.
BLANK == Ch("\\n\\n")

\* The block "```json vega-lite ... data: {name: dataName} ... ```".
SpecBlock(dn) == [k |-> "json vega-lite", n |-> dn]

\* The block "```csv dataName ... ```".
CsvBlock(dn) == [k |-> "csv", n |-> dn]

Token(id) == <<OPEN>> \o id \o <<CLOSE>>

\* The characters an id of the model is written with.
IdChars == {"a", "-", "_"}

\* [a-zA-Z0-9] among the characters of the model.
AlphaNum == {"a", "I", "M", "A", "G", "E"}

\* A document of the conversion runs is made of at most MaxPieces pieces.
MaxPieces == 3

\* Calls of convertToChartifact in one behaviour of ConvSpec.
MaxRuns == 2

\* Sandbox instances constructed in one behaviour of Spec.
MaxSandboxes == 3

\* Calls of loadChartifactScripts in flight at once in one behaviour of Spec.
MaxLoads == 2

\* Conversions whose handlers are queued at once.
MaxSettled == 2


(***************************************************************************)
(* State of the conversion: the inputs of convertToChartifact (the         *)
(* reportMarkdown argument and the charts and tables props), its locals,   *)
(* and where a call stands.                                                *)
(***************************************************************************)
VARIABLES
    reportMarkdown,     \* the argument of convertToChartifact
    charts,             \* prop charts: a set of chart records with distinct ids
    tables,             \* prop tables: the ids of the tables
    pc,                 \* "idle", "scan", "replace", "append", "returned", "rejected"
    lastIndex,          \* imageRegex.lastIndex (1 is the start of the string)
    chartReplacements,  \* the local array of the same name
    result,             \* the local of the same name; the returned string
    runs,               \* calls entered so far
    firstResult         \* what the first call returned

convVars == <<reportMarkdown, charts, tables, pc, lastIndex, chartReplacements,
              result, runs, firstResult>>

Min(S) == CHOOSE x \in S : \A y \in S : x <= y

\* The position of the first closer after position i, 0 when there is none.
FirstClose(doc, i) ==
    LET js == {j \in (i + 1)..Len(doc) : doc[j] = CLOSE}
    IN  IF js = {} THEN 0 ELSE Min(js)

\* /\[IMAGE\(([^)]+)\)\]/ tried at position i: the position of the closer that
\* ends the match, 0 when the pattern does not match at i.  [^)]+ takes every
\* symbol up to the first closer and needs at least one.
MatchEnd(doc, i) ==
    IF i <= Len(doc) /\ doc[i] = OPEN /\ FirstClose(doc, i) >= i + 2
    THEN FirstClose(doc, i)
    ELSE 0

NoMatch == [found |-> FALSE, index |-> 0, last |-> 0, fullMatch |-> <<>>, chartId |-> <<>>]

\* imageRegex.exec(reportMarkdown) with the scan starting at `from`: the leftmost
\* match at or after it.
Exec(doc, from) ==
    LET starts == {i \in from..Len(doc) : MatchEnd(doc, i) # 0}
    IN  IF starts = {} THEN NoMatch
        ELSE LET i == Min(starts)
                 j == MatchEnd(doc, i)
             IN  [found |-> TRUE, index |-> i, last |-> j,
                  fullMatch |-> SubSeq(doc, i, j),
                  chartId |-> [x \in 1..(j - i - 1) |-> doc[i + x].k]]

\* The characters chartId.replace(/[^a-zA-Z0-9]/g, '_') leaves for one symbol.
SanitizeSym(c) ==
    IF c \in AlphaNum THEN <<c>>
    ELSE IF c = OPEN.k THEN <<"_", "I", "M", "A", "G", "E", "_">>
    ELSE <<"_">>

RECURSIVE Sanitize(_)
Sanitize(id) ==
    IF id = <<>> THEN <<>> ELSE SanitizeSym(Head(id)) \o Sanitize(Tail(id))

\* dataName = `chartData_${chartId.replace(/[^a-zA-Z0-9]/g, '_')}`
DataName(chartId) == <<"chartData_">> \o Sanitize(chartId)

\* charts.find(c => c.id === chartId): the set of charts found (at most one).
FindChart(chartId) == {c \in charts : c.id = chartId}

Skip == [push |-> FALSE, threw |-> FALSE,
         entry |-> [original |-> <<>>, specReplacement |-> <<>>, dataName |-> <<>>]]

\* What the inner catch does with an exception of prepVisTable,
\* assembleVegaChart or exportTableToDsv: log it, go on with the next match.
InnerCatch == Skip

\* The body of the scan loop for one match.
ProcessMatch(m) ==
    LET found == FindChart(m.chartId)
    IN  IF found = {} THEN Skip
        ELSE LET chart == CHOOSE c \in found : TRUE
             IN  IF chart.tableRef \notin tables THEN Skip
                 ELSE IF chart.chartType = "Table" \/ chart.chartType = "?" THEN Skip
                 ELSE IF chart.throws THEN InnerCatch
                 ELSE [push |-> TRUE, threw |-> FALSE,
                       entry |-> [original |-> m.fullMatch,
                                  specReplacement |-> <<SpecBlock(DataName(m.chartId))>>,
                                  dataName |-> DataName(m.chartId)]]

\* while ((match = imageRegex.exec(reportMarkdown)) !== null) { ... }
RECURSIVE ScanLoop(_, _, _)
ScanLoop(doc, from, repl) ==
    LET m == Exec(doc, from)
    IN  IF ~m.found THEN [repl |-> repl, threw |-> FALSE]
        ELSE LET r == ProcessMatch(m)
             IN  IF r.threw THEN [repl |-> repl, threw |-> TRUE]
                 ELSE ScanLoop(doc, m.last + 1,
                               IF r.push THEN Append(repl, r.entry) ELSE repl)

\* The positions at which `pat` occurs in `text`.
Occurrences(text, pat) ==
    {p \in 1..(Len(text) - Len(pat) + 1) : SubSeq(text, p, p + Len(pat) - 1) = pat}

\* text.replace(pat, by) with a string pattern: the first occurrence only.
ReplaceFirst(text, pat, by) ==
    IF Occurrences(text, pat) = {} THEN text
    ELSE LET p == Min(Occurrences(text, pat))
         IN  SubSeq(text, 1, p - 1) \o by \o SubSeq(text, p + Len(pat), Len(text))

\* for (const { original, specReplacement } of chartReplacements)
\*     result = result.replace(original, specReplacement);
RECURSIVE ApplyReplacements(_, _)
ApplyReplacements(text, repl) ==
    IF repl = <<>> THEN text
    ELSE ApplyReplacements(
             ReplaceFirst(text, Head(repl).original, Head(repl).specReplacement),
             Tail(repl))

\* The csv blocks, one per entry, in the order of the entries.
CsvBlocksReversed(repl) ==
    [i \in 1..Len(repl) |-> CsvBlock(repl[Len(repl) + 1 - i].dataName)]

CsvBlocks(repl) == [i \in 1..Len(repl) |-> CsvBlock(repl[i].dataName)]

AppendCsvAlways(text, repl) == text \o <<BLANK>> \o CsvBlocks(repl)

\* if (chartReplacements.length > 0) { result += '\n\n'; for (...) result += csv block }
AppendCsv(text, repl) ==
    IF Len(repl) > 0 THEN text \o <<BLANK>> \o CsvBlocks(repl) ELSE text

\* convertToChartifact as a whole, for the caller that only needs its outcome.
convertToChartifact(doc) ==
    LET s == ScanLoop(doc, 1, <<>>)
    IN  IF s.threw THEN [ok |-> FALSE, value |-> <<>>]
        ELSE [ok |-> TRUE, value |-> AppendCsv(ApplyReplacements(doc, s.repl), s.repl)]

(***************************************************************************)
(* One call of convertToChartifact, in the steps of its body.              *)
(***************************************************************************)
\* const chartReplacements = [] (line 216): a new array for every call.
StaleReplacements == chartReplacements

FreshReplacements == <<>>

\* The call starts: a new regex (lastIndex 0), result = reportMarkdown, a new array.
Enter ==
    /\ pc \in {"idle", "returned", "rejected"}
    /\ runs < MaxRuns
    /\ pc' = "scan"
    /\ runs' = runs + 1
    /\ firstResult' = IF runs = 1 THEN [ok |-> pc = "returned", value |-> result]
                      ELSE firstResult
    /\ lastIndex' = 1
    /\ result' = reportMarkdown
    /\ chartReplacements' = FreshReplacements
    /\ UNCHANGED <<reportMarkdown, charts, tables>>

\* The scan loop; an exception that leaves it is rethrown by the outer catch.
Scan ==
    /\ pc = "scan"
    /\ LET s == ScanLoop(reportMarkdown, lastIndex, chartReplacements)
       IN  /\ chartReplacements' = s.repl
           /\ pc' = IF s.threw THEN "rejected" ELSE "replace"
    /\ lastIndex' = 1
    /\ UNCHANGED <<reportMarkdown, charts, tables, result, runs, firstResult>>

\* The replacement loop.
Replace ==
    /\ pc = "replace"
    /\ result' = ApplyReplacements(result, chartReplacements)
    /\ pc' = "append"
    /\ UNCHANGED <<reportMarkdown, charts, tables, lastIndex, chartReplacements,
                   runs, firstResult>>

\* The csv blocks are appended and the result is returned.
AppendAndReturn ==
    /\ pc = "append"
    /\ result' = AppendCsv(result, chartReplacements)
    /\ pc' = "returned"
    /\ UNCHANGED <<reportMarkdown, charts, tables, lastIndex, chartReplacements,
                   runs, firstResult>>


(***************************************************************************)
(* The inputs of the conversion runs.                                      *)
(***************************************************************************)
\* A piece: a character of text, an opener or a closer alone, a whole token.
Pieces ==
    {<<Ch("a")>>, <<OPEN>>, <<CLOSE>>,
     Token(<<Ch("a")>>), Token(<<Ch("-")>>), Token(<<Ch("_")>>)}

RECURSIVE DocsOf(_)
DocsOf(n) ==
    IF n = 0 THEN {<<>>}
    ELSE DocsOf(n - 1) \cup {d \o p : d \in DocsOf(n - 1), p \in Pieces}

Docs == DocsOf(MaxPieces)

Chart(id, tableRef, chartType, throws) ==
    [id |-> id, tableRef |-> tableRef, chartType |-> chartType, throws |-> throws]

\* The chart stores: chart "a" absent or present in every way the resolver
\* tells apart (table present or missing, visual or not, emission throwing or
\* not), chart "-" absent, fine or throwing, chart "_" absent or fine.
ChartStores ==
    LET optA == {{}} \cup {{Chart(<<"a">>, t, ct, th)} :
                     t \in {"t1", "t0"}, ct \in {"Bar", "Table", "?"}, th \in BOOLEAN}
        optB == {{}} \cup {{Chart(<<"-">>, "t1", "Bar", th)} : th \in BOOLEAN}
        optC == {{}, {Chart(<<"_">>, "t1", "Bar", FALSE)}}
    IN  {a \cup b \cup c : a \in optA, b \in optB, c \in optC}

ConvInit ==
    /\ reportMarkdown \in Docs
    /\ charts \in ChartStores
    /\ tables = {"t1"}
    /\ pc = "idle"
    /\ lastIndex = 1
    /\ chartReplacements = <<>>
    /\ result = <<>>
    /\ runs = 0
    /\ firstResult = [ok |-> FALSE, value |-> <<>>]


(***************************************************************************)
(* The component.  Props, React state, the ref, the global the scripts     *)
(* define, the calls in flight, and what each effect last ran with.        *)
(***************************************************************************)
VARIABLES
    mounted,            \* the component is mounted
    open,               \* prop open
    reportContent,      \* prop reportContent
    source,             \* useState('')
    isConverting,       \* useState(false)
    chartifactLoaded,   \* useState(false)
    sandboxReady,       \* useState(false)
    parentElement,      \* useState(null): "null" or the preview box "div"
    sandboxRef,         \* sandboxRef.current: Null or the id of a sandbox
    sandboxes,          \* every sandbox the constructor returned, by id
    iframe,             \* sandboxRef.current.iframe, as isSandboxFunctional reads it
    delivered,          \* the markdown sandboxRef.current got last (constructor or send)
    windowChartifact,   \* window.Chartifact: which of sandbox, htmlWrapper it has
    loads,              \* calls of loadChartifactScripts in flight: the script each awaits
    settled,            \* conversion promises settled, their handlers not yet run
    loadDeps,           \* the dependencies the load effect last ran with
    sandboxDeps,        \* the dependencies the sandbox effect last ran with
    convDeps,           \* the dependencies the conversion effect last ran with
    lastEvent,          \* history: the last open, close, document, mount point or load event
    calls,              \* history: the calls the last step made on the sandbox library
    scenario,           \* history: "fresh", "one" (one open and nothing else), "other"
    ctorCalls,          \* history: calls of the Sandbox constructor, counted to 2
    readyUps,           \* history: times sandboxReady went from false to true, counted to 2
    loadFailed          \* history: a call of loadChartifactScripts has rejected

lifeVars == <<mounted, open, reportContent, source, isConverting, chartifactLoaded,
              sandboxReady, parentElement, sandboxRef, sandboxes, iframe, delivered,
              windowChartifact, loads, settled, loadDeps, sandboxDeps, convDeps, lastEvent, calls,
              scenario, ctorCalls, readyUps, loadFailed>>

vars == <<convVars, lifeVars>>

Null == 0

SandboxIds == 1..MaxSandboxes

\* The iframe of a sandbox as isSandboxFunctional reads it.
IframeOk == [present |-> TRUE, contentWindow |-> TRUE, src |-> "blob:"]

IframeBroken ==
    {[present |-> FALSE, contentWindow |-> FALSE, src |-> ""],
     [present |-> TRUE, contentWindow |-> FALSE, src |-> "blob:"],
     [present |-> TRUE, contentWindow |-> TRUE, src |-> ""],
     [present |-> TRUE, contentWindow |-> TRUE, src |-> "about:blank"]}

NoSandbox == [made |-> FALSE, ready |-> FALSE, destroyed |-> FALSE]

Made == {i \in SandboxIds : sandboxes[i].made}

Inc2(n) == IF n < 2 THEN n + 1 ELSE 2

\* The report documents the parent passes, and what the user types.
ReportDocs == {<<>>, <<Ch("a")>>, Token(<<Ch("a")>>)}

Typed == {<<>>, <<Ch("a")>>}

\* isSandboxFunctional(), lines 156-178.
\* h is the held sandbox: h.ref is sandboxRef.current, h.iframe its iframe.
isSandboxFunctionalTrusting(h) == h.ref # Null

isSandboxFunctionalIgnoringSrc(h) ==
    IF h.ref = Null \/ ~h.iframe.present THEN FALSE
    ELSE IF ~h.iframe.contentWindow THEN FALSE
    ELSE TRUE

isSandboxFunctional(h) ==
    IF h.ref = Null \/ ~h.iframe.present THEN FALSE
    ELSE IF ~h.iframe.contentWindow THEN FALSE
    ELSE IF h.iframe.src = "" \/ h.iframe.src = "about:blank" THEN FALSE
    ELSE TRUE

\* The dependency arrays of the three effects, as the current render has them.
LoadDepsNow == [ran |-> TRUE, open |-> open, chartifactLoaded |-> chartifactLoaded]

SandboxDepsWithoutMount ==
    [ran |-> TRUE, open |-> open, chartifactLoaded |-> chartifactLoaded,
     source |-> source, parentElement |-> "null"]

SandboxDepsNow ==
    [ran |-> TRUE, open |-> open, chartifactLoaded |-> chartifactLoaded,
     source |-> source, parentElement |-> parentElement]

ConvDepsNow == [ran |-> TRUE, open |-> open, reportContent |-> reportContent]

LoadPending == loadDeps # LoadDepsNow

SandboxPending == sandboxDeps # SandboxDepsNow

ConvPending == convDeps # ConvDepsNow

EffectsPending == LoadPending \/ SandboxPending \/ ConvPending

\* Nothing of the current task is left: the effects of the last render have
\* run and no promise handler is queued.  Events from outside come after that.
Quiescent == mounted /\ ~EffectsPending /\ settled = <<>>

Room(k) == Cardinality(Made) + k <= MaxSandboxes


(***************************************************************************)
(* The effects.  React runs the effects of a render whose dependencies     *)
(* changed after the render is committed and before anything else: first   *)
(* the cleanup the previous run of the effect returned, then the effect.   *)
(* An effect reads the props and state of its render; what it sets is seen *)
(* from the next render on.                                                *)
(***************************************************************************)
Call(op, id, markdown) == [op |-> op, id |-> id, markdown |-> markdown]

\* useEffect(() => { if (open && !chartifactLoaded) loadChartifactScripts(); },
\* [open, chartifactLoaded]), with loadChartifactScripts up to its first await.
LoadEffectRetrying ==
    IF open /\ ~chartifactLoaded
    THEN IF windowChartifact.sandbox /\ windowChartifact.htmlWrapper
         THEN chartifactLoaded' = TRUE /\ loads' = loads
         ELSE chartifactLoaded' = chartifactLoaded /\ loads' = Append(loads, 1)
    ELSE UNCHANGED <<chartifactLoaded, loads>>

LoadEffect ==
    IF LoadPending /\ open /\ ~chartifactLoaded
    THEN IF windowChartifact.sandbox /\ windowChartifact.htmlWrapper
         THEN chartifactLoaded' = TRUE /\ loads' = loads
         ELSE chartifactLoaded' = chartifactLoaded /\ loads' = Append(loads, 1)
    ELSE UNCHANGED <<chartifactLoaded, loads>>

\* The test of the cleanup (line 197); wasOpen is the open of the render the
\* cleanup was returned in.
CleanupDestroys(wasOpen) == ~wasOpen /\ sandboxRef # Null

\* The test of the effect, line 187.
EffectConditionWhileClosed ==
    chartifactLoaded /\ source # <<>> /\ parentElement # "null"

EffectCondition ==
    open /\ chartifactLoaded /\ source # <<>> /\ parentElement # "null"

\* Line 188: construct rather than send.
ShouldInitializeAlways(h) == TRUE

ShouldInitialize(h) == ~isSandboxFunctional(h) \/ ~sandboxReady

\* What is left of the held sandbox: the ref, the sandboxes, its iframe, the
\* markdown it got last and the calls made so far in this step.
Held(ref, boxes, fr, dl, cs) ==
    [ref |-> ref, boxes |-> boxes, iframe |-> fr, delivered |-> dl, calls |-> cs]

Put(h) ==
    /\ sandboxRef' = h.ref
    /\ sandboxes' = h.boxes
    /\ iframe' = h.iframe
    /\ delivered' = h.delivered
    /\ calls' = h.calls

\* initializeSandbox(), lines 131-153, after the cleanup left h.  The
\* constructor returns a sandbox (its iframe alive) or throws.
initializeSandbox(h) ==
    IF ~chartifactLoaded \/ parentElement = "null" \/ source = <<>>
    THEN Put(h) /\ ctorCalls' = ctorCalls
    ELSE \E throws \in BOOLEAN :
           LET id == Cardinality(Made) + 1
           IN  /\ ctorCalls' = Inc2(ctorCalls)
               /\ IF throws
                  THEN Put([h EXCEPT !.calls = Append(@, Call("new throws", Null, source))])
                  ELSE Put(Held(id,
                                [h.boxes EXCEPT ![id] =
                                    [made |-> TRUE, ready |-> FALSE, destroyed |-> FALSE]],
                                IframeOk, source,
                                Append(h.calls, Call("new", id, source))))

\* sandboxRef.current.send(source), line 191.
SendSource(h) ==
    [h EXCEPT !.delivered = source, !.calls = Append(@, Call("send", h.ref, source))]

\* The cleanup, lines 196-204: destroy(), sandboxRef.current = null.
Destroyed ==
    Held(Null, [sandboxes EXCEPT ![sandboxRef].destroyed = TRUE], IframeOk, <<>>,
         <<Call("destroy", sandboxRef, <<>>)>>)

\* The sandbox effect, lines 186-205.
SandboxEffect ==
    IF ~SandboxPending
    THEN /\ UNCHANGED <<sandboxRef, sandboxes, iframe, delivered, sandboxReady, ctorCalls>>
         /\ calls' = <<>>
    ELSE LET destroys == sandboxDeps.ran /\ CleanupDestroys(sandboxDeps.open)
             h == IF destroys THEN Destroyed
                  ELSE Held(sandboxRef, sandboxes, iframe, delivered, <<>>)
         IN  /\ sandboxReady' = IF destroys THEN FALSE ELSE sandboxReady
             /\ IF EffectCondition
                THEN IF ShouldInitialize(h)
                     THEN initializeSandbox(h)
                     ELSE IF h.ref # Null
                          THEN Put(SendSource(h)) /\ ctorCalls' = ctorCalls
                          ELSE Put(h) /\ ctorCalls' = ctorCalls
                ELSE Put(h) /\ ctorCalls' = ctorCalls

\* The conversion effect, lines 308-322.  convertToChartifact has no await:
\* its promise is settled when the call returns, and the handler runs when
\* the effects are done.
ConvEffect ==
    IF ConvPending /\ open /\ reportContent # <<>>
    THEN /\ isConverting' = TRUE
         /\ settled' = Append(settled, convertToChartifact(reportContent))
    ELSE UNCHANGED <<isConverting, settled>>

\* Promise handlers are running: one has run and the next is queued.  React
\* renders, and runs effects, when the queue of microtasks is empty.
HandlersRunning == settled # <<>> /\ lastEvent = "converted"

\* The effects of the last render run.
FlushEffects ==
    /\ mounted
    /\ EffectsPending
    /\ ~HandlersRunning
    /\ LoadEffect
    /\ SandboxEffect
    /\ ConvEffect
    /\ loadDeps' = LoadDepsNow
    /\ sandboxDeps' = SandboxDepsNow
    /\ convDeps' = ConvDepsNow
    /\ UNCHANGED <<mounted, open, reportContent, source, parentElement,
                   windowChartifact, lastEvent, scenario, readyUps, loadFailed>>
    /\ UNCHANGED convVars

ErrorText == <<Ch("Error converting report to Chartifact format")>>

RemoveAt(q, k) == SubSeq(q, 1, k - 1) \o SubSeq(q, k + 1, Len(q))

\* Which of the queued handlers runs next: the promises are settled when
\* convertToChartifact returns, their handlers run in the order of the calls.
SettleOrderLastFirst(q) == Len(q)

SettleOrder(q) == 1

HandleSettledKeepsConverting ==
    /\ mounted
    /\ ~EffectsPending \/ HandlersRunning
    /\ settled # <<>>
    /\ LET k == SettleOrder(settled)
       IN  /\ source' = IF settled[k].ok THEN settled[k].value ELSE ErrorText
           /\ settled' = RemoveAt(settled, k)
    /\ isConverting' = isConverting
    /\ lastEvent' = "converted"
    /\ calls' = <<>>
    /\ UNCHANGED <<mounted, open, reportContent, chartifactLoaded, sandboxReady,
                   parentElement, sandboxRef, sandboxes, iframe, delivered,
                   windowChartifact, loads, loadDeps, sandboxDeps, convDeps,
                   scenario, ctorCalls, readyUps, loadFailed>>
    /\ UNCHANGED convVars

\* The .then or the .catch handler of a settled conversion, lines 312-320.
HandleSettled ==
    /\ mounted
    /\ ~EffectsPending \/ HandlersRunning
    /\ settled # <<>>
    /\ LET k == SettleOrder(settled)
       IN  /\ source' = IF settled[k].ok THEN settled[k].value ELSE ErrorText
           /\ settled' = RemoveAt(settled, k)
    /\ isConverting' = FALSE
    /\ lastEvent' = "converted"
    /\ calls' = <<>>
    /\ UNCHANGED <<mounted, open, reportContent, chartifactLoaded, sandboxReady,
                   parentElement, sandboxRef, sandboxes, iframe, delivered,
                   windowChartifact, loads, loadDeps, sandboxDeps, convDeps,
                   scenario, ctorCalls, readyUps, loadFailed>>
    /\ UNCHANGED convVars


(***************************************************************************)
(* The events from outside: the parent's props, the dialog mounting and    *)
(* unmounting the preview box, the user typing, the scripts, the sandbox.  *)
(***************************************************************************)
\* The parent opens the dialog.
Open ==
    /\ Quiescent
    /\ ~open
    /\ chartifactLoaded \/ Len(loads) < MaxLoads
    /\ Room(2)
    /\ open' = TRUE
    /\ lastEvent' = "open"
    /\ scenario' = IF scenario = "fresh" THEN "one" ELSE "other"
    /\ calls' = <<>>
    /\ UNCHANGED <<mounted, reportContent, source, isConverting, chartifactLoaded,
                   sandboxReady, parentElement, sandboxRef, sandboxes, iframe,
                   delivered, windowChartifact, loads, settled, loadDeps, sandboxDeps,
                   convDeps, ctorCalls, readyUps, loadFailed>>
    /\ UNCHANGED convVars

\* The parent closes the dialog (onClose).
Close ==
    /\ Quiescent
    /\ open
    /\ open' = FALSE
    /\ lastEvent' = "close"
    /\ scenario' = "other"
    /\ calls' = <<>>
    /\ UNCHANGED <<mounted, reportContent, source, isConverting, chartifactLoaded,
                   sandboxReady, parentElement, sandboxRef, sandboxes, iframe,
                   delivered, windowChartifact, loads, settled, loadDeps, sandboxDeps,
                   convDeps, ctorCalls, readyUps, loadFailed>>
    /\ UNCHANGED convVars

\* The parent passes another report.
SetReportContent ==
    /\ Quiescent
    /\ Room(1)
    /\ \E r \in ReportDocs \ {reportContent} : reportContent' = r
    /\ lastEvent' = "report"
    /\ scenario' = IF open THEN "other" ELSE scenario
    /\ calls' = <<>>
    /\ UNCHANGED <<mounted, open, source, isConverting, chartifactLoaded,
                   sandboxReady, parentElement, sandboxRef, sandboxes, iframe,
                   delivered, windowChartifact, loads, settled, loadDeps, sandboxDeps,
                   convDeps, ctorCalls, readyUps, loadFailed>>
    /\ UNCHANGED convVars

\* The parent passes another report in the task in which a conversion has
\* started (from an effect of its own, say): the component renders and its
\* effects run again before the handler of the first conversion does.
SetReportContentInTask ==
    /\ mounted
    /\ open
    /\ ~EffectsPending
    /\ settled # <<>>
    /\ Len(settled) < MaxSettled
    /\ ~HandlersRunning
    /\ Room(1)
    /\ \E r \in ReportDocs \ {reportContent} : reportContent' = r
    /\ lastEvent' = "report"
    /\ scenario' = "other"
    /\ calls' = <<>>
    /\ UNCHANGED <<mounted, open, source, isConverting, chartifactLoaded,
                   sandboxReady, parentElement, sandboxRef, sandboxes, iframe,
                   delivered, windowChartifact, loads, settled, loadDeps, sandboxDeps,
                   convDeps, ctorCalls, readyUps, loadFailed>>
    /\ UNCHANGED convVars

\* ref={setParentElement}: the open dialog has mounted the preview box.
RefAttach ==
    /\ Quiescent
    /\ Room(1)
    /\ open
    /\ parentElement = "null"
    /\ parentElement' = "div"
    /\ lastEvent' = "mount point"
    /\ calls' = <<>>
    /\ UNCHANGED <<mounted, open, reportContent, source, isConverting,
                   chartifactLoaded, sandboxReady, sandboxRef, sandboxes, iframe, delivered,
                   windowChartifact, loads, settled, loadDeps, sandboxDeps,
                   convDeps, scenario, ctorCalls, readyUps, loadFailed>>
    /\ UNCHANGED convVars

\* ref={setParentElement}: the closed dialog has unmounted the preview box.
RefDetach ==
    /\ Quiescent
    /\ ~open
    /\ parentElement = "div"
    /\ parentElement' = "null"
    /\ lastEvent' = "mount point"
    /\ calls' = <<>>
    /\ UNCHANGED <<mounted, open, reportContent, source, isConverting,
                   chartifactLoaded, sandboxReady, sandboxRef, sandboxes, iframe, delivered,
                   windowChartifact, loads, settled, loadDeps, sandboxDeps,
                   convDeps, scenario, ctorCalls, readyUps, loadFailed>>
    /\ UNCHANGED convVars

\* onChange of the source field, which is disabled while converting.
UserEdit ==
    /\ Quiescent
    /\ Room(1)
    /\ open
    /\ parentElement = "div"
    /\ ~isConverting
    /\ \E t \in Typed \ {source} : source' = t
    /\ lastEvent' = "edit"
    /\ scenario' = "other"
    /\ calls' = <<>>
    /\ UNCHANGED <<mounted, open, reportContent, isConverting, chartifactLoaded,
                   sandboxReady, parentElement, sandboxRef, sandboxes, iframe,
                   delivered, windowChartifact, loads, settled, loadDeps, sandboxDeps,
                   convDeps, ctorCalls, readyUps, loadFailed>>
    /\ UNCHANGED convVars

\* script.onload of the script a call of loadChartifactScripts awaits.  The
\* script has defined its part of window.Chartifact, or has not.  After the
\* second script the namespace is verified, lines 119-123.
ScriptOnload ==
    /\ Quiescent
    /\ Room(1)
    /\ \E k \in 1..Len(loads), defines \in BOOLEAN :
         IF loads[k] = 1
         THEN /\ windowChartifact' =
                     [windowChartifact EXCEPT !.sandbox = @ \/ defines]
              /\ loads' = [loads EXCEPT ![k] = 2]
              /\ chartifactLoaded' = chartifactLoaded
         ELSE /\ windowChartifact' =
                     [windowChartifact EXCEPT !.htmlWrapper = @ \/ defines]
              /\ loads' = RemoveAt(loads, k)
              /\ chartifactLoaded' =
                     IF windowChartifact'.sandbox /\ windowChartifact'.htmlWrapper
                     THEN TRUE
                     ELSE chartifactLoaded
    /\ LET rejects == /\ Len(loads') < Len(loads)
                       /\ ~(windowChartifact'.sandbox /\ windowChartifact'.htmlWrapper)
       IN  /\ loadFailed' = (loadFailed \/ rejects)
           /\ lastEvent' = IF rejects THEN "load failed" ELSE "load"
    /\ calls' = <<>>
    /\ UNCHANGED <<mounted, open, reportContent, source, isConverting,
                   sandboxReady, parentElement, sandboxRef, sandboxes, iframe, delivered, settled,
                   loadDeps, sandboxDeps, convDeps, scenario, ctorCalls, readyUps>>
    /\ UNCHANGED convVars

\* script.onerror: the call rejects (the error is logged and rethrown).
ScriptOnerror ==
    /\ Quiescent
    /\ \E k \in 1..Len(loads) : loads' = RemoveAt(loads, k)
    /\ loadFailed' = TRUE
    /\ lastEvent' = "load failed"
    /\ calls' = <<>>
    /\ UNCHANGED <<mounted, open, reportContent, source, isConverting,
                   chartifactLoaded, sandboxReady, parentElement, sandboxRef,
                   sandboxes, iframe, delivered, windowChartifact, settled, loadDeps, sandboxDeps,
                   convDeps, scenario, ctorCalls, readyUps>>
    /\ UNCHANGED convVars

\* onReady of a sandbox that was constructed and not destroyed, lines 138-140.
OnReady ==
    /\ Quiescent
    /\ \E i \in Made :
         /\ ~sandboxes[i].destroyed
         /\ ~sandboxes[i].ready
         /\ sandboxes' = [sandboxes EXCEPT ![i].ready = TRUE]
    /\ sandboxReady' = TRUE
    /\ readyUps' = IF sandboxReady THEN readyUps ELSE Inc2(readyUps)
    /\ calls' = <<>>
    /\ UNCHANGED <<mounted, lastEvent, open, reportContent, source, isConverting,
                   chartifactLoaded, parentElement, sandboxRef, iframe, delivered,
                   windowChartifact, loads, settled, loadDeps, sandboxDeps,
                   convDeps, scenario, ctorCalls, loadFailed>>
    /\ UNCHANGED convVars

\* The host kills the iframe of the sandbox the ref holds.
Tombstone ==
    /\ Quiescent
    /\ sandboxRef # Null
    /\ iframe = IframeOk
    /\ iframe' \in IframeBroken
    /\ calls' = <<>>
    /\ UNCHANGED <<mounted, open, reportContent, source, isConverting,
                   chartifactLoaded, sandboxReady, parentElement, sandboxRef,
                   sandboxes, delivered, lastEvent, windowChartifact, loads, settled, loadDeps, sandboxDeps,
                   convDeps, scenario, ctorCalls, readyUps, loadFailed>>
    /\ UNCHANGED convVars

\* The component unmounts: the cleanup the last run of the sandbox effect
\* returned runs once more.
Unmount ==
    /\ Quiescent
    /\ mounted' = FALSE
    /\ IF sandboxDeps.ran /\ CleanupDestroys(sandboxDeps.open)
       THEN Put(Destroyed)
       ELSE /\ UNCHANGED <<sandboxes, sandboxRef, iframe, delivered>>
            /\ calls' = <<>>
    /\ lastEvent' = "unmount"
    /\ scenario' = "other"
    /\ UNCHANGED <<open, reportContent, source, isConverting, chartifactLoaded,
                   sandboxReady, parentElement, windowChartifact, loads, settled,
                   loadDeps, sandboxDeps, convDeps, ctorCalls, readyUps, loadFailed>>
    /\ UNCHANGED convVars

(***************************************************************************)
(* The specifications.                                                     *)
(***************************************************************************)
\* The chart store of the component's behaviours: chart "a" over table "t1".
LifeCharts == {Chart(<<"a">>, "t1", "Bar", FALSE)}

ConvIdle ==
    /\ reportMarkdown = <<>>
    /\ charts = LifeCharts
    /\ tables = {"t1"}
    /\ pc = "idle"
    /\ lastIndex = 1
    /\ chartReplacements = <<>>
    /\ result = <<>>
    /\ runs = 0
    /\ firstResult = [ok |-> FALSE, value |-> <<>>]

\* The component after its first render, before the effects of it.
LifeInit ==
    /\ mounted = TRUE
    /\ open = FALSE
    /\ reportContent \in ReportDocs
    /\ source = <<>>
    /\ isConverting = FALSE
    /\ chartifactLoaded = FALSE
    /\ sandboxReady = FALSE
    /\ parentElement = "null"
    /\ sandboxRef = Null
    /\ sandboxes = [i \in SandboxIds |-> NoSandbox]
    /\ iframe = IframeOk
    /\ delivered = <<>>
    /\ windowChartifact \in {[sandbox |-> b, htmlWrapper |-> b] : b \in BOOLEAN}
    /\ loads = <<>>
    /\ settled = <<>>
    /\ loadDeps = [ran |-> FALSE, open |-> FALSE, chartifactLoaded |-> FALSE]
    /\ sandboxDeps = [ran |-> FALSE, open |-> FALSE, chartifactLoaded |-> FALSE,
                      source |-> <<>>, parentElement |-> "null"]
    /\ convDeps = [ran |-> FALSE, open |-> FALSE, reportContent |-> <<>>]
    /\ lastEvent = "mount"
    /\ calls = <<>>
    /\ scenario = "fresh"
    /\ ctorCalls = 0
    /\ readyUps = 0
    /\ loadFailed = FALSE

Init == LifeInit /\ ConvIdle

Next ==
    \/ FlushEffects
    \/ HandleSettled
    \/ Open
    \/ Close
    \/ SetReportContent
    \/ SetReportContentInTask
    \/ RefAttach
    \/ RefDetach
    \/ UserEdit
    \/ ScriptOnload
    \/ ScriptOnerror
    \/ OnReady
    \/ Tombstone
    \/ Unmount

Spec == Init /\ [][Next]_vars

effectDeps == <<loadDeps, sandboxDeps, convDeps>>

\* The steps of FlushEffects, told by what they do to the dependencies the
\* effects last ran with: they are the only steps that change them, and they
\* can be taken exactly when FlushEffects can.
EffectsFlushed ==
    /\ mounted
    /\ EffectsPending
    /\ ~HandlersRunning
    /\ loadDeps' = LoadDepsNow
    /\ sandboxDeps' = SandboxDepsNow
    /\ convDeps' = ConvDepsNow

\* React runs the effects of a committed render, and the microtasks of
\* settled promises run: neither can be put off for ever.
LiveSpec == Spec /\ WF_effectDeps(EffectsFlushed) /\ WF_vars(HandleSettled)

\* The conversion runs: the component does not move.
ConvStep ==
    \/ Enter /\ UNCHANGED lifeVars
    \/ Scan /\ UNCHANGED lifeVars
    \/ Replace /\ UNCHANGED lifeVars
    \/ AppendAndReturn /\ UNCHANGED lifeVars

\* The component at rest (closed, nothing to convert, no runtime) and a call of
\* convertToChartifact about to be made on any document and chart store.
ConvStart ==
    /\ LifeInit
    /\ reportContent = <<>>
    /\ ~windowChartifact.sandbox
    /\ ConvInit

ConvSpec == ConvStart /\ [][ConvStep]_vars


(***************************************************************************)
(* The claims.                                                             *)
(***************************************************************************)
\* C1: once a close has been processed (the effects of the render with open
\* false have run, and no open, document, mount point or load event has
\* followed), the ref holds no sandbox and sandboxReady is false: the sandbox
\* that was held has been destroyed.
C1_CloseTearsDown ==
    (mounted /\ lastEvent = "close" /\ ~EffectsPending)
        => (sandboxRef = Null /\ ~sandboxReady)

\* The iframe of the held sandbox passes the checks of lines 157-173.
HealthyIframe ==
    iframe.present /\ iframe.contentWindow /\ iframe.src \notin {"", "about:blank"}

\* The sandbox effect is about to run in an open dialog with the runtime
\* loaded, the mount point present and a non-empty source, and the cleanup of
\* its previous run (returned while open) leaves the held sandbox alone.
UpdateDue ==
    /\ mounted
    /\ SandboxPending
    /\ ~HandlersRunning
    /\ open /\ chartifactLoaded /\ parentElement # "null" /\ source # <<>>
    /\ sandboxDeps.ran /\ sandboxDeps.open
    /\ sandboxRef # Null

\* C2: the source changes to a new non-empty value while the dialog is open,
\* the runtime loaded, the mount point unchanged, the held sandbox has
\* signalled ready and its iframe is healthy: the sandbox effect calls
\* send(source) once on the held sandbox, makes no other call, constructs
\* nothing and keeps the handle.
C2_UpdateSends ==
    [][(/\ UpdateDue
        /\ sandboxDeps.chartifactLoaded
        /\ sandboxDeps.parentElement = parentElement
        /\ sandboxDeps.source # source
        /\ sandboxes[sandboxRef].ready
        /\ HealthyIframe)
       => (/\ calls' = <<Call("send", sandboxRef, source)>>
           /\ delivered' = source
           /\ sandboxRef' = sandboxRef
           /\ sandboxes' = sandboxes
           /\ ctorCalls' = ctorCalls)]_vars

\* C2's case has happened: after a change of the document, the effect has
\* sent the source to the held sandbox, which had signalled ready.
C2_Witness ==
    /\ lastEvent \in {"edit", "converted"}
    /\ sandboxRef # Null
    /\ sandboxes[sandboxRef].ready
    /\ calls = <<Call("send", sandboxRef, source)>>
    /\ delivered = source

\* C3 as stated: when an update is due and the health check fails, the effect
\* does not send; it constructs a new sandbox with the current source, and the
\* new sandbox becomes the held handle.
C3_UnhealthyRecreates ==
    [][(UpdateDue /\ ~HealthyIframe)
       => (/\ calls' = <<Call("new", sandboxRef', source)>>
           /\ sandboxRef' \in SandboxIds \ Made
           /\ sandboxes'[sandboxRef'].made
           /\ delivered' = source)]_vars

\* C3 amended: when an update is due and the health check fails, the effect
\* does not send; it calls the constructor once with the current source.  If
\* the constructor returns, the new sandbox becomes the held handle; if it
\* throws, the error is caught and the handle stays as it was.
C3_UnhealthyCallsConstructor ==
    [][(UpdateDue /\ ~HealthyIframe)
       => \/ /\ calls' = <<Call("new", sandboxRef', source)>>
             /\ sandboxRef' \in SandboxIds \ Made
             /\ sandboxes'[sandboxRef'].made
             /\ delivered' = source
             /\ iframe' = IframeOk
          \/ /\ calls' = <<Call("new throws", Null, source)>>
             /\ sandboxRef' = sandboxRef
             /\ sandboxes' = sandboxes
             /\ iframe' = iframe
             /\ delivered' = delivered]_vars

\* C3's case has happened: a sandbox that had been replaced for a broken
\* iframe exists beside the new one the ref holds.
C3_Witness ==
    /\ lastEvent \in {"edit", "converted"}
    /\ sandboxRef # Null
    /\ calls = <<Call("new", sandboxRef, source)>>
    /\ \E i \in Made \ {sandboxRef} : sandboxes[i].ready /\ ~sandboxes[i].destroyed
    /\ sandboxReady

\* One open, one conversion result and no later change of the document: all
\* three prerequisites have arrived and the effects have run.
C4_Arrived ==
    /\ scenario = "one"
    /\ mounted /\ ~EffectsPending /\ settled = <<>>
    /\ open /\ chartifactLoaded /\ parentElement # "null" /\ source # <<>>

\* C4 as stated: in that scenario exactly one sandbox has been constructed.
C4_ExactlyOneSandbox == C4_Arrived => Cardinality(Made) = 1

\* C4 amended: in that scenario the constructor is called exactly once,
\* whatever the order of the prerequisites; one sandbox is constructed unless
\* the call throws; sandboxReady goes from false to true at most once, and is
\* true only when the one sandbox is held and has signalled ready.
C4_OneConstructorCall ==
    scenario = "one" =>
        /\ ctorCalls <= 1
        /\ Cardinality(Made) <= ctorCalls
        /\ readyUps <= 1
        /\ C4_Arrived => ctorCalls = 1
        /\ ~C4_Arrived => ctorCalls = 0
        /\ sandboxReady =>
              /\ readyUps = 1
              /\ Made = {sandboxRef}
              /\ sandboxes[sandboxRef].ready

\* C4's case has happened with the mount point as the last prerequisite.
C4_Witness ==
    /\ C4_Arrived
    /\ lastEvent = "mount point"
    /\ Cardinality(Made) = 1
    /\ sandboxReady
    /\ readyUps = 1

\* The matches the scanner finds in doc from position `from` on, left to right.
RECURSIVE MatchesFrom(_, _)
MatchesFrom(doc, from) ==
    LET m == Exec(doc, from)
    IN  IF ~m.found THEN <<>> ELSE <<m>> \o MatchesFrom(doc, m.last + 1)

\* The matches of the input, as a set of records.
Placeholders == {MatchesFrom(reportMarkdown, 1)[i] :
                     i \in 1..Len(MatchesFrom(reportMarkdown, 1))}

\* The chart of a placeholder is in the store, its table too, its type is
\* visual and its emission does not throw.
Resolves(m) ==
    \E c \in charts :
        /\ c.id = m.chartId
        /\ c.tableRef \in tables
        /\ c.chartType \notin {"Table", "?"}
        /\ ~c.throws

\* The chart is missing, its table is missing, or its type is not visual.
Unresolved(m) ==
    \A c \in charts :
        c.id = m.chartId => (c.tableRef \notin tables \/ c.chartType \in {"Table", "?"})

Count(text, sym) == Cardinality({i \in 1..Len(text) : text[i] = sym})

\* C5: for every placeholder id that resolves, the returned document holds
\* exactly one json vega-lite block and exactly one csv block of its data
\* name, and the token of the id occurs in it no more.
C5_OneBlockPerResolvedId ==
    pc = "returned" =>
        \A m \in Placeholders :
            Resolves(m) =>
                /\ Count(result, SpecBlock(DataName(m.chartId))) = 1
                /\ Count(result, CsvBlock(DataName(m.chartId))) = 1
                /\ Occurrences(result, m.fullMatch) = {}

\* C6: every placeholder occurrence whose id does not resolve stands verbatim
\* in the returned document: the text of its token occurs there at least as
\* often as the scanner matched it in the input.
C6_UnresolvedKept ==
    pc = "returned" =>
        \A m \in Placeholders :
            Unresolved(m) =>
                Cardinality(Occurrences(result, m.fullMatch))
                    >= Cardinality({x \in Placeholders : x.fullMatch = m.fullMatch})

\* A document holds a token: an opener, at least one symbol that is no closer,
\* a closer.
HasToken(doc) ==
    \E i, j \in 1..Len(doc) :
        /\ doc[i] = OPEN
        /\ j >= i + 2
        /\ doc[j] = CLOSE
        /\ \A k \in (i + 1)..(j - 1) : doc[k] # CLOSE

\* C7: a call on a document without a token returns (it does not reject) and
\* returns the document as it is: nothing replaced, nothing appended.
C7_NoTokenUnchanged ==
    ~HasToken(reportMarkdown) =>
        /\ pc # "rejected"
        /\ pc = "returned" => result = reportMarkdown

\* C7's case has happened: a document with openers and closers but no token
\* has been returned.
C7_Witness ==
    /\ pc = "returned"
    /\ ~HasToken(reportMarkdown)
    /\ Count(reportMarkdown, OPEN) > 0
    /\ Count(reportMarkdown, CLOSE) > 0
    /\ result = reportMarkdown

\* C8: two resolved charts with different ids get different data names.
C8_DistinctDataNames ==
    pc = "returned" =>
        \A m1, m2 \in Placeholders :
            (Resolves(m1) /\ Resolves(m2) /\ m1.chartId # m2.chartId)
                => DataName(m1.chartId) # DataName(m2.chartId)

\* C9: the second call on the same document and the same store returns what
\* the first call returned.
C9_SecondRunSame ==
    (runs = 2 /\ pc \in {"returned", "rejected"})
        => firstResult = [ok |-> pc = "returned", value |-> result]

\* C9's case has happened: a second call that replaced a placeholder has
\* returned.
C9_Witness ==
    /\ runs = 2
    /\ pc = "returned"
    /\ chartReplacements # <<>>
    /\ firstResult = [ok |-> TRUE, value |-> result]

\* C10: a call never rejects, and when a placeholder of the document fails
\* (chart or table missing, type not visual, emission throwing), every other
\* placeholder that resolves is replaced by its spec block (its token is gone)
\* and has its data block.
C10_FailureIsolated ==
    /\ pc # "rejected"
    /\ pc = "returned" =>
          \A bad, m \in Placeholders :
              (~Resolves(bad) /\ Resolves(m)) =>
                  /\ Occurrences(result, m.fullMatch) = {}
                  /\ Count(result, SpecBlock(DataName(m.chartId))) >= 1
                  /\ Count(result, CsvBlock(DataName(m.chartId))) >= 1

\* The calls of the last step that have the given name.
CallsOf(cs, op) == {i \in 1..Len(cs) : cs[i].op = op}

\* The close has been processed: the dialog is closed and the sandbox effect
\* has run for open = false.
CloseProcessed == mounted /\ ~open /\ sandboxDeps.ran /\ ~sandboxDeps.open

\* destroy() is never called on a sandbox that has been destroyed.
NoDoubleDestroy ==
    [][\A i \in CallsOf(calls', "destroy") : ~sandboxes[calls'[i].id].destroyed]_vars

\* C11: once a close has been processed, whatever is processed next with no
\* open in between calls destroy() on no instance and finds and leaves the
\* handle null and readiness false; and destroy() is never called twice on
\* the same sandbox.
C11_CloseIdempotent ==
    /\ [][(CloseProcessed /\ mounted' /\ ~open')
              => /\ CallsOf(calls', "destroy") = {}
                 /\ sandboxRef' = Null
                 /\ ~sandboxReady']_vars
    /\ NoDoubleDestroy

\* The error texts the component can put in place of the document (line 318
\* is the only one in the source).
ErrorMessages == {ErrorText}

\* C12: when the load of the runtime has failed in an open dialog and nothing
\* else has happened since, the user is shown an explicit error text in place
\* of the document.
C12_LoadFailureShown ==
    (mounted /\ open /\ lastEvent = "load failed" /\ ~chartifactLoaded /\ ~EffectsPending)
        => source \in ErrorMessages

\* C13: when conversions overlap, the handler of the newest runs last: while
\* handlers are queued the last of them is that of the current report, and
\* when all have run the source holds the conversion of the current report.
C13_NewestConversionWins ==
    (mounted /\ reportContent # <<>> /\ ~ConvPending) =>
        /\ settled # <<>> => settled[Len(settled)] = convertToChartifact(reportContent)
        /\ (settled = <<>> /\ lastEvent = "converted")
               => source = convertToChartifact(reportContent).value

\* C13's case has happened: two conversions were started before a handler
\* ran; the handler of the older has run and left its document in the
\* source, the handler of the newer, with another document, is queued last.
C13_Witness ==
    /\ HandlersRunning
    /\ reportContent # <<>>
    /\ source # <<>>
    /\ source # convertToChartifact(reportContent).value
    /\ settled = <<convertToChartifact(reportContent)>>

\* C14: nothing that happens while the dialog is closed (a script load
\* finishing, a conversion handler running) writes the source, isConverting
\* or the loaded flag.
C14_LateCompletionDiscarded ==
    [][(mounted /\ ~open)
          => /\ source' = source
             /\ isConverting' = isConverting
             /\ chartifactLoaded' = chartifactLoaded]_vars

\* The calls of the Sandbox constructor among the given calls.
ConstructorCalls(cs) == CallsOf(cs, "new") \cup CallsOf(cs, "new throws")

\* C15: every step that calls the Sandbox constructor is taken with the
\* dialog open, the loaded flag set and both modules present in
\* window.Chartifact, a mount point and a non-empty source; the constructor
\* gets that source.
C15_ConstructedOnlyWhenReady ==
    [][\A i \in ConstructorCalls(calls') :
          /\ mounted
          /\ open
          /\ chartifactLoaded
          /\ windowChartifact.sandbox /\ windowChartifact.htmlWrapper
          /\ parentElement # "null"
          /\ source # <<>>
          /\ calls'[i].markdown = source]_vars

\* C15's case has happened: a sandbox has been constructed, in a dialog whose
\* first load attempt had failed and whose retry succeeded.
C15_Witness ==
    /\ CallsOf(calls, "new") # {}
    /\ loadFailed
    /\ open /\ chartifactLoaded /\ parentElement = "div" /\ source # <<>>
    /\ sandboxRef # Null

\* The dialog is open, the effects of the last change have run, and the ref
\* holds a sandbox that has signalled ready and whose iframe is healthy.
ReadyHealthyHeld ==
    /\ mounted /\ open
    /\ ~EffectsPending /\ settled = <<>>
    /\ sandboxRef # Null
    /\ sandboxes[sandboxRef].ready
    /\ HealthyIframe

\* C16: in such a state the document the held sandbox got last equals the
\* source, whatever the source is.
C16_SandboxInSync == ReadyHealthyHeld => delivered = source

\* A call of loadChartifactScripts ends in this step: it rejects, or it
\* sets the loaded flag.
LoadRejects == Len(loads') < Len(loads) /\ lastEvent' = "load failed"

LoadSucceeds == Len(loads') < Len(loads) /\ lastEvent' = "load"

\* A load attempt starts only in the effects that follow an open event (open
\* going from false to true) with the loaded flag false: never by itself.
NoLoadByItself ==
    [][Len(loads') > Len(loads)
          => (mounted /\ open /\ ~loadDeps.open /\ ~chartifactLoaded)]_vars

\* After a failure, the effects that follow the next open event start a new
\* load attempt.
OpenRetriesLoad ==
    [][(loadFailed /\ mounted /\ open /\ ~loadDeps.open /\ ~chartifactLoaded
          /\ loadDeps' # loadDeps)
          => Len(loads') = Len(loads) + 1]_vars

\* After a failure, the effects that follow the next open event start a new
\* load attempt, or find both modules present (another attempt's scripts have
\* defined them meanwhile) and set the loaded flag at once.
OpenRetriesOrLoads ==
    [][(loadFailed /\ mounted /\ open /\ ~loadDeps.open /\ ~chartifactLoaded
          /\ loadDeps' # loadDeps)
          => \/ Len(loads') = Len(loads) + 1
             \/ /\ windowChartifact.sandbox /\ windowChartifact.htmlWrapper
                /\ chartifactLoaded'
                /\ loads' = loads]_vars

\* An attempt that succeeds sets the loaded flag.
SuccessLoads == [][LoadSucceeds => chartifactLoaded']_vars

ConversionOutcomes ==
    {convertToChartifact(r).value : r \in ReportDocs \ {<<>>}} \cup {ErrorText}

\* C18: a conversion that has started (isConverting is true) ends: a handler
\* runs and leaves isConverting false and the source set to a converted
\* document or to the error text; and once every handler has run and the
\* effects are done isConverting is false.
C18_ConversionEnds ==
    /\ isConverting ~> (/\ ~isConverting
                        /\ lastEvent = "converted"
                        /\ source \in ConversionOutcomes)
    /\ []((mounted /\ ~EffectsPending /\ settled = <<>>) => ~isConverting)

\* C18's case has happened: a conversion of a report with a placeholder has
\* ended, in a dialog that has seen more than its first open.
C18_Witness ==
    /\ scenario = "other"
    /\ open
    /\ lastEvent = "converted"
    /\ settled = <<>>
    /\ ~isConverting
    /\ reportContent = Token(<<Ch("a")>>)
    /\ source = convertToChartifact(reportContent).value

\* The placeholders of the input that resolve, in the order the scanner
\* finds them, and the csv blocks of their charts in that order.
ResolvedInOrder == SelectSeq(MatchesFrom(reportMarkdown, 1), Resolves)

CsvInOrder ==
    [i \in 1..Len(ResolvedInOrder) |-> CsvBlock(DataName(ResolvedInOrder[i].chartId))]

RECURSIVE ReplacedInPlace(_, _)
ReplacedInPlace(doc, from) ==
    LET m == Exec(doc, from)
    IN  IF ~m.found THEN SubSeq(doc, from, Len(doc))
        ELSE SubSeq(doc, from, m.index - 1)
                 \o (IF Resolves(m) THEN <<SpecBlock(DataName(m.chartId))>>
                     ELSE m.fullMatch)
                 \o ReplacedInPlace(doc, m.last + 1)

\* C20: the returned document is the input with the k-th resolved match
\* replaced in place by the k-th spec block and no other text altered,
\* followed by the appended csv blocks.
C20_ReplacesMatchedOccurrence ==
    pc = "returned" =>
        result = ReplacedInPlace(reportMarkdown, 1)
                     \o (IF ResolvedInOrder = <<>> THEN <<>>
                         ELSE <<BLANK>> \o CsvInOrder)

\* What the ref holds now, as the health check reads it.
HeldNow == Held(sandboxRef, sandboxes, iframe, delivered, calls)

\* C21: isSandboxFunctional() is false exactly when the ref holds nothing,
\* the held sandbox has no iframe, the iframe has no contentWindow, or the
\* src of the iframe is empty or about:blank.
C21_HealthCheckCriteria ==
    isSandboxFunctional(HeldNow)
        <=> ~(\/ sandboxRef = Null
              \/ ~iframe.present
              \/ ~iframe.contentWindow
              \/ iframe.src = ""
              \/ iframe.src = "about:blank")

\* C21's case has happened: the held sandbox has an iframe with a
\* contentWindow whose src is about:blank, and the check fails.
C21_Witness ==
    /\ sandboxRef # Null
    /\ iframe.present
    /\ iframe.contentWindow
    /\ iframe.src = "about:blank"
    /\ ~isSandboxFunctional(HeldNow)

\* The sandboxes that were constructed and not yet destroyed.
Live == {i \in Made : ~sandboxes[i].destroyed}

\* C22: at any time at most one sandbox is constructed and not yet
\* destroyed, and a live sandbox is the one the ref holds.
C22_AtMostOneLive ==
    /\ Cardinality(Live) <= 1
    /\ \A i \in Live : sandboxRef = i

\* C23: send(source) is only ever called on a sandbox whose own onReady
\* has fired.
C23_SendOnlyToReady ==
    [][\A i \in CallsOf(calls', "send") : sandboxes'[calls'[i].id].ready]_vars

\* C24: at most one call of loadChartifactScripts is pending at any time.
C24_OneLoadInFlight == Len(loads) <= 1

\* C25: when the component unmounts while a sandbox is held, with the
\* dialog open or closed, destroy() is called on that sandbox and the ref
\* is cleared.
C25_UnmountTearsDown ==
    [][(mounted /\ ~mounted' /\ sandboxRef # Null)
       => (/\ calls' = <<Call("destroy", sandboxRef, <<>>)>>
           /\ sandboxes'[sandboxRef].destroyed
           /\ sandboxRef' = Null)]_vars

=============================================================================
